---------------------------- MODULE Spec2Model ----------------------------
(***************************************************************************)
(* Model of contrib/loaders/flash/esp32/stub_flasher.c: the ESP32 flasher  *)
(* stub that OpenOCD uploads to the target and calls through stub_main.    *)
(*                                                                         *)
(* Two builds are modelled.  Spec is the build the file selects            *)
(* (STUB_ASYNC_WRITE_ALGO == 0): stub_main, stub_flash_handler with the    *)
(* cache guard of both cores, and the aligned read / write / erase /       *)
(* self-test routines, one action per raw ROM call.  SpecStream is the     *)
(* #else branch of stub_flash_write: the polling loop over the ring buffer *)
(* that the host fills concurrently.                                       *)
(*                                                                         *)
(* uint32_t values are represented by the member of their residue class    *)
(* modulo 2^32 that lies in [-2^31, 2^31): 0xFFFFFFFC is -4.  Addition and *)
(* subtraction are then the integer ones (every value of the model stays   *)
(* far from 2^31), "x & 3" is x % 4, "x & ~3" is x - (x % 4), and the      *)
(* unsigned comparison is ULT below.                                       *)
(***************************************************************************)
EXTENDS Integers, Sequences, FiniteSets, TLC

(***************************************************************************)
(* Program constants.                                                      *)
(***************************************************************************)
SPI_FLASH_SEC_SIZE == 4096

STUB_ERR_OK == 0
STUB_ERR_FAIL == -1
STUB_ERR_NOT_SUPPORTED == -2

STUB_CMD_TEST == 0
STUB_CMD_FLASH_READ == 1
STUB_CMD_FLASH_WRITE == 2
STUB_CMD_FLASH_ERASE == 3
STUB_CMD_FLASH_TEST == 4

STUB_FLASH_WRITE_CHUNK_SZ == 32

\* esp_rom_spiflash_result_t: the stub only distinguishes OK from the rest.
ESP_ROM_SPIFLASH_RESULT_OK == 0
ESP_ROM_SPIFLASH_RESULT_ERR == 1

\* stub_flash_test: flash_addr = 0x1d4000 and the initialised part of buf[32].
TestFlashAddr == 1916928
TestBuf == <<9, 1, 2, 3, 4, 5, 6, 8>>
TestBufSize == 32

\* cache_mask: the six region bits of DPORT_x_CACHE_CTRL1_REG.
cache_mask == {"OPSDRAM", "DROM0", "DRAM1", "IROM0", "IRAM1", "IRAM0"}
\* A bit of DPORT_x_CACHE_CTRL1_REG that is outside cache_mask.
Ctrl1OtherBits == {"MMU_IA_CLR"}
\* DPORT_x_CACHE_CTRL_REG: the enable bit and a bit next to it.
CACHE_ENABLE == {"CACHE_ENABLE"}
CtrlOtherBits == {"CACHE_FLUSH_ENA"}

(***************************************************************************)
(* Bounds of the model.                                                    *)
(***************************************************************************)
\* Byte offsets of the read/write address from the window base: 0..MaxOff.
MaxOff == 3
\* Read/write sizes: 0..MaxSize bytes.
MaxSize == 10
\* Values the cache status field can show besides idle (1): 0..MaxCacheState.
MaxCacheState == 2

(***************************************************************************)
(* uint32_t arithmetic on the signed representatives.                      *)
(***************************************************************************)
\* a < b as unsigned 32-bit values.
ULT(a, b) == IF (a < 0) = (b < 0) THEN a < b ELSE b < 0
ULE(a, b) == ~ULT(b, a)
\* x & ~(m - 1) for a power of two m.
AlignDown(x, m) == x - (x % m)

(***************************************************************************)
(* The peripheral-register macros of soc/soc.h, on registers as bit sets.  *)
(* All uses in the stub have shift 0 or a one-bit field.                   *)
(***************************************************************************)
GET_PERI_REG_BITS2(reg, mask) == reg \cap mask
SET_PERI_REG_BITS(reg, bit_map, value) == (reg \ bit_map) \cup (value \cap bit_map)

(***************************************************************************)
(* The flash device.  The model tracks the bytes of a few windows of the   *)
(* chip (whole words): the window the read/write commands address, which   *)
(* starts one word before a sector boundary; the two ends of the sectors   *)
(* next to it; and the start of the self-test area.  A byte's value after  *)
(* an operation depends only on its own value and on the data, so the      *)
(* untracked bytes do not influence the tracked ones.                      *)
(***************************************************************************)
ChipSize == 1024 * SPI_FLASH_SEC_SIZE
WinBase == SPI_FLASH_SEC_SIZE
WinEnd == WinBase + AlignDown(MaxOff + MaxSize + 3, 4) + 8
Window == (WinBase - 4) .. (WinEnd - 1)
SectorEdges == UNION {((k * SPI_FLASH_SEC_SIZE) - 4) .. ((k * SPI_FLASH_SEC_SIZE) + 3) : k \in 1..3}
TestWindow == TestFlashAddr .. (TestFlashAddr + 7)
Probe == Window \cup SectorEdges \cup TestWindow

ErasedByte == 255
\* The content of the chip before the first command: no byte of it equals
\* the erased value, a payload byte or a byte of unrelated RAM.
Orig(a) == 128 + (a % 64)
\* Byte i of the payload the host put in the buffer.
Payload(i) == 1 + (i % 64)
\* Bytes of RAM next to the caller's buffer: whatever was there.
JunkBytes == {200, 201}

Cores == {0, 1}
Bytes == 0..255
\* Marks a byte of a buffer that no code has written.
NoByte == 0 - 1
\* The caller's destination buffer is observed a little beyond MaxSize, so
\* that a write behind the requested length shows.
DestCap == MaxSize + 12

FlashCmds == {STUB_CMD_FLASH_READ, STUB_CMD_FLASH_WRITE, STUB_CMD_FLASH_ERASE, STUB_CMD_FLASH_TEST}
\* Command identifiers the host may pass: the five defined ones and one
\* unknown identifier on either side.
Cmds == (STUB_CMD_TEST - 1) .. (STUB_CMD_FLASH_TEST + 1)

VARIABLES
    pc,       \* position of the stub: "idle" (not running), a label of stub_flash_handler, "done"
    cmd,      \* stub_main's cmd
    addr,     \* va_arg flash_addr
    size,     \* va_arg size
    junk,     \* the two bytes of RAM that follow the caller's payload (repeated)
    ret,      \* the status stub_main returns
    coreId,   \* stub_get_coreid()
    ctrl,     \* DPORT_{PRO,APP}_CACHE_CTRL_REG of core 0 and 1, as bit sets
    ctrl1,    \* DPORT_{PRO,APP}_CACHE_CTRL1_REG of core 0 and 1, as bit sets
    flags,    \* stub_flash_handler's flags[2]
    gidx,     \* which flags[] slot the running stub_spi_flash_disable_cache fills
    sv,       \* stub_spi_flash_disable_cache's local ret
    cstate,   \* the last poll of DPORT_x_DCACHE_DBUG0_REG: whose, and the value read
    flash,    \* content of the tracked flash bytes
    dest,     \* the caller's buffer as stub_flash_read fills it
    loc,      \* locals of stub_flash_read / stub_flash_write
    log,      \* the cache-guard and ROM calls of this invocation, in order
    hwfault,  \* whether the flash hardware has failed a call of this invocation
    entry,    \* flash and cache registers as they were when stub_main was entered
    prev,     \* the previous invocation, as the host remembers it
    ring,     \* streaming build: the bytes of the ring buffer's data area
    wrCur,    \* streaming build: *wr_p, written by the host only
    rdCur,    \* streaming build: *rd_p
    spc,      \* streaming build: position in stub_flash_write's loop
    sloc,     \* streaming build: locals wr, rd, wr_sz, written, addr, ret
    produced, \* streaming build: number of bytes the host has appended
    wraps,    \* streaming build: how often the host's write-cursor has wrapped
    programmed \* streaming build: the bytes handed to esp_rom_spiflash_write, in order

syncVars == <<pc, cmd, addr, size, junk, ret, coreId, ctrl, ctrl1, flags, gidx, sv,
              cstate, flash, dest, loc, log, hwfault, entry, prev>>
streamVars == <<ring, wrCur, rdCur, spc, sloc, produced, wraps, programmed>>
vars == <<syncVars, streamVars>>

(***************************************************************************)
(* The ROM flash routines (rom/spi_flash.h), as the stub sees them.        *)
(***************************************************************************)
\* Whether [a, a+len) lies on the chip.
InChip(a, len) == ULE(a, ChipSize) /\ ULE(len, ChipSize - a)
\* The result of a ROM call on [a, a+len): OK unless the hardware fails the
\* call or the range is not on the chip.
RawResult(f, a, len) ==
    IF ~f /\ InChip(a, len) THEN ESP_ROM_SPIFLASH_RESULT_OK ELSE ESP_ROM_SPIFLASH_RESULT_ERR
\* How many bytes a call that ends with rc has transferred: all of them
\* when it succeeded, a short prefix (in units) when it failed.
Cuts(rc, len, unit) ==
    IF rc = ESP_ROM_SPIFLASH_RESULT_OK THEN {len}
    ELSE {c \in {0, unit, 2 * unit} : ULE(c, len)}
\* esp_rom_spiflash_write: the first cut bytes of [a, a+len) take Src.
\* src[o] is the byte for a + o.
FlashProgram(fl, a, src, cut) ==
    [x \in DOMAIN fl |-> IF ULT(x - a, cut) THEN src[x - a] ELSE fl[x]]
\* esp_rom_spiflash_erase_area / _erase_sector.
FlashErase(fl, a, cut) ==
    [x \in DOMAIN fl |-> IF ULT(x - a, cut) THEN ErasedByte ELSE fl[x]]
\* esp_rom_spiflash_read of one word into dummy_buf.
FlashWord(fl, wa) == [i \in 0..3 |-> fl[wa + i]]

\* A ROM flash call, and a cache-guard call with the state it saved or was given.
Ev(op, a, len, rc) == [op |-> op, core |-> 0, a |-> a, len |-> len, rc |-> rc, st |-> {}]
GuardEv(op, core, st) == [op |-> op, core |-> core, a |-> 0, len |-> 0, rc |-> 0, st |-> st]
FlashOps == {"unlock", "read", "program", "erase"}

\* data[i] of stub_flash_write: the payload, then the RAM behind it.
Data(i) == IF i < size THEN Payload(i) ELSE junk[i % 2]

(***************************************************************************)
(* Pure parts of the routines.                                             *)
(***************************************************************************)
\* stub_spi_flash_disable_cache: the value it saves, and the register write.
SavedState(reg1) == GET_PERI_REG_BITS2(reg1, cache_mask)
\* Faulty variant: the enable bit is written as 1 instead of 0.
DisableCtrlSetsBit(reg) == SET_PERI_REG_BITS(reg, CACHE_ENABLE, CACHE_ENABLE)
DisableCtrl(reg) == SET_PERI_REG_BITS(reg, CACHE_ENABLE, {})
\* stub_spi_flash_restore_cache: its two register writes.
RestoreCtrl(reg) == SET_PERI_REG_BITS(reg, CACHE_ENABLE, CACHE_ENABLE)
\* Faulty variant: cache_mask is written instead of the saved state.
RestoreCtrl1WritesMask(reg1, saved_state) == SET_PERI_REG_BITS(reg1, cache_mask, cache_mask)
RestoreCtrl1(reg1, saved_state) == SET_PERI_REG_BITS(reg1, cache_mask, saved_state)
\* Faulty variant: other_core_id is the executing core itself.
OtherCoreSame(c) == c
\* stub_flash_handler: other_core_id.
OtherCore(c) == IF c = 0 THEN 1 ELSE 0
\* Faulty variant: the disable calls are made for the executing core first.
GuardCoreSelfFirst(i) == IF i = 0 THEN OtherCore(coreId) ELSE coreId
\* stub_flash_handler: the core a flags[] slot belongs to.
GuardCore(i) == IF i = 0 THEN coreId ELSE OtherCore(coreId)
\* Faulty variant: the poll ends on any non-zero status.
PollIdleNonZero(st) == st # 0
\* stub_spi_flash_disable_cache: the test that ends the poll of the status field.
PollIdle(st) == st = 1
\* Faulty variant: the result of the unlock is ignored.
UnlockFailedNever(rc) == FALSE
\* stub_flash_handler: if (rc != ESP_ROM_SPIFLASH_RESULT_OK) after the unlock.
UnlockFailed(rc) == rc # ESP_ROM_SPIFLASH_RESULT_OK
\* Faulty variant: the bulk length is passed on without rounding.
BulkSizeUnrounded(sz) == sz
\* Faulty variant: the bulk length is rounded up to the word holding the tail.
BulkSizeRoundsUp(sz) == AlignDown(sz + 3, 4)
\* stub_flash_read / stub_flash_write: the unaligned head.
HeadSize(a) == 4 - (a % 4)
NextWord(a) == AlignDown(a + 3, 4)
\* ... and the length of the aligned bulk.
BulkSize(sz) == IF sz % 4 # 0 THEN AlignDown(sz, 4) ELSE sz
\* stub_flash_erase: the range handed to esp_rom_spiflash_erase_area.
EraseAddr(a) ==
    IF a % SPI_FLASH_SEC_SIZE # 0 THEN AlignDown(a, SPI_FLASH_SEC_SIZE) ELSE a
\* Faulty variant: the size is bumped to the next sector even when aligned.
EraseSizeBumped(s) == AlignDown(s + SPI_FLASH_SEC_SIZE, SPI_FLASH_SEC_SIZE)
EraseSize(s) ==
    IF s % SPI_FLASH_SEC_SIZE # 0
    THEN AlignDown(s + (SPI_FLASH_SEC_SIZE - 1), SPI_FLASH_SEC_SIZE) ELSE s

NoWord == [i \in 0..3 |-> NoByte]
NoPoll == [core |-> NoByte, val |-> NoByte]
LocInit == [flash_addr |-> 0, sz |-> 0, n |-> 0, dummy |-> NoWord]
NoPrev == [valid |-> FALSE, cmd |-> 0, addr |-> 0, size |-> 0, ret |-> 0, hwfault |-> FALSE]

(***************************************************************************)
(* The host.  It issues one command; after a FLASH_WRITE it may read the   *)
(* same range back.                                                        *)
(***************************************************************************)
RwAddrs == {WinBase + o : o \in 0..MaxOff}
RwSizes == 0..MaxSize
EraseAddrs == {WinBase, WinBase + 1, (2 * SPI_FLASH_SEC_SIZE) - 1}
EraseSizes == {0, 1, 2, SPI_FLASH_SEC_SIZE - 1, SPI_FLASH_SEC_SIZE, SPI_FLASH_SEC_SIZE + 1}
NoJunk == [i \in 0..1 |-> 200]
Request(c, a, s, j) == [cmd |-> c, addr |-> a, size |-> s, junk |-> j]
FirstRequests ==
    {Request(c, 0, 0, NoJunk) : c \in Cmds \ {STUB_CMD_FLASH_READ, STUB_CMD_FLASH_WRITE, STUB_CMD_FLASH_ERASE}}
    \cup {Request(STUB_CMD_FLASH_READ, a, s, NoJunk) : a \in RwAddrs, s \in RwSizes}
    \cup {Request(STUB_CMD_FLASH_WRITE, a, s, j) : a \in RwAddrs, s \in RwSizes, j \in [0..1 -> JunkBytes]}
    \cup {Request(STUB_CMD_FLASH_ERASE, a, s, NoJunk) : a \in EraseAddrs, s \in EraseSizes}
HostRequests ==
    IF ~prev.valid THEN FirstRequests
    ELSE {Request(STUB_CMD_FLASH_READ, prev.addr, prev.size, NoJunk)}

handlerVars == <<coreId, ctrl, ctrl1, flags, gidx, sv, cstate>>

(***************************************************************************)
(* stub_main                                                               *)
(***************************************************************************)
\* Faulty variant: every identifier but TEST is forwarded to the handler.
MainSwitchNoDefault(c) ==
    IF c = STUB_CMD_TEST THEN [ret |-> 0, pc |-> "done"] ELSE [ret |-> 0, pc |-> "dis_save"]
\* switch (cmd): the status, and whether stub_flash_handler runs.
MainSwitch(c) ==
    IF c = STUB_CMD_TEST THEN [ret |-> 0, pc |-> "done"]
    ELSE IF c \in FlashCmds THEN [ret |-> 0, pc |-> "dis_save"]
    ELSE [ret |-> STUB_ERR_NOT_SUPPORTED, pc |-> "done"]

stub_main ==
    /\ pc = "idle"
    /\ \E r \in HostRequests :
          /\ cmd' = r.cmd /\ addr' = r.addr /\ size' = r.size /\ junk' = r.junk
          /\ ret' = MainSwitch(r.cmd).ret /\ pc' = MainSwitch(r.cmd).pc
    /\ gidx' = 1
    /\ log' = <<>>
    /\ dest' = [i \in 0..(DestCap - 1) |-> NoByte]
    /\ loc' = LocInit
    /\ hwfault' = FALSE
    /\ entry' = [flash |-> flash, ctrl |-> ctrl, ctrl1 |-> ctrl1]
    /\ UNCHANGED <<coreId, ctrl, ctrl1, flags, sv, cstate, flash, prev, streamVars>>

\* The host takes the status of a FLASH_WRITE and goes on to read back.
HostReturn ==
    /\ pc = "done"
    /\ ~prev.valid
    /\ cmd = STUB_CMD_FLASH_WRITE
    /\ prev' = [valid |-> TRUE, cmd |-> cmd, addr |-> addr, size |-> size,
                ret |-> ret, hwfault |-> hwfault]
    /\ pc' = "idle"
    /\ UNCHANGED <<cmd, addr, size, junk, ret, handlerVars, flash, dest, loc, log,
                   hwfault, entry, streamVars>>

(***************************************************************************)
(* stub_spi_flash_disable_cache(GuardCore(gidx), &flags[gidx])             *)
(***************************************************************************)
\* ret |= GET_PERI_REG_BITS2(CACHE_CTRL1_REG, cache_mask, 0)
DisableSave ==
    /\ pc = "dis_save"
    /\ sv' = SavedState(ctrl1[GuardCore(gidx)])
    /\ cstate' = NoPoll
    /\ pc' = "dis_poll"
    /\ UNCHANGED <<cmd, addr, size, junk, ret, coreId, ctrl, ctrl1, flags, gidx,
                   flash, dest, loc, log, hwfault, entry, prev, streamVars>>

\* while (GET_PERI_REG_BITS2(DCACHE_DBUG0_REG, CACHE_STATE, ..) != 1) ;
DisablePoll ==
    /\ pc = "dis_poll"
    /\ \E st \in 0..MaxCacheState :
          /\ cstate' = [core |-> GuardCore(gidx), val |-> st]
          /\ pc' = IF PollIdle(st) THEN "dis_clear" ELSE "dis_poll"
    /\ UNCHANGED <<cmd, addr, size, junk, ret, coreId, ctrl, ctrl1, flags, gidx, sv,
                   flash, dest, loc, log, hwfault, entry, prev, streamVars>>

\* SET_PERI_REG_BITS(CACHE_CTRL_REG, 1, 0, CACHE_ENABLE_S); *saved_state = ret
DisableClear ==
    /\ pc = "dis_clear"
    /\ ctrl' = [ctrl EXCEPT ![GuardCore(gidx)] = DisableCtrl(@)]
    /\ flags' = [flags EXCEPT ![gidx] = sv]
    /\ log' = Append(log, GuardEv("disable", GuardCore(gidx), sv))
    /\ IF gidx = 1 THEN gidx' = 0 /\ pc' = "dis_save"
                   ELSE gidx' = gidx /\ pc' = "unlock"
    /\ UNCHANGED <<cmd, addr, size, junk, ret, coreId, ctrl1, sv, cstate,
                   flash, dest, loc, hwfault, entry, prev, streamVars>>

(***************************************************************************)
(* stub_flash_handler: unlock, the switch, and the exit funnel             *)
(***************************************************************************)
Unlock ==
    /\ pc = "unlock"
    /\ \E f \in BOOLEAN :
          LET rc == RawResult(f, 0, 0) IN
          /\ log' = Append(log, Ev("unlock", 0, 0, rc))
          /\ hwfault' = (hwfault \/ f)
          /\ IF UnlockFailed(rc)
             THEN ret' = STUB_ERR_FAIL /\ pc' = "restore_self"
             ELSE ret' = ret /\ pc' = "switch"
    /\ UNCHANGED <<cmd, addr, size, junk, handlerVars, flash, dest, loc, entry, prev,
                   streamVars>>

Switch ==
    /\ pc = "switch"
    /\ CASE cmd = STUB_CMD_FLASH_READ -> pc' = "rd_head" /\ ret' = ret
         [] cmd = STUB_CMD_FLASH_ERASE -> pc' = "erase" /\ ret' = ret
         [] cmd = STUB_CMD_FLASH_WRITE -> pc' = "wr_head_rd" /\ ret' = ret
         [] cmd = STUB_CMD_FLASH_TEST -> pc' = "t_erase" /\ ret' = ret
         [] OTHER -> pc' = "restore_self" /\ ret' = STUB_ERR_NOT_SUPPORTED
    /\ UNCHANGED <<cmd, addr, size, junk, handlerVars, flash, dest, loc, log, hwfault,
                   entry, prev, streamVars>>

\* stub_spi_flash_restore_cache(core_id, flags[0])
RestoreSelf ==
    /\ pc = "restore_self"
    /\ ctrl' = [ctrl EXCEPT ![coreId] = RestoreCtrl(@)]
    /\ ctrl1' = [ctrl1 EXCEPT ![coreId] = RestoreCtrl1(@, flags[0])]
    /\ log' = Append(log, GuardEv("restore", coreId, flags[0]))
    /\ pc' = "restore_other"
    /\ UNCHANGED <<cmd, addr, size, junk, ret, coreId, flags, gidx, sv, cstate,
                   flash, dest, loc, hwfault, entry, prev, streamVars>>

\* stub_spi_flash_restore_cache(other_core_id, flags[1]); return ret
RestoreOther ==
    /\ pc = "restore_other"
    /\ ctrl' = [ctrl EXCEPT ![OtherCore(coreId)] = RestoreCtrl(@)]
    /\ ctrl1' = [ctrl1 EXCEPT ![OtherCore(coreId)] = RestoreCtrl1(@, flags[1])]
    /\ log' = Append(log, GuardEv("restore", OtherCore(coreId), flags[1]))
    /\ pc' = "done"
    /\ UNCHANGED <<cmd, addr, size, junk, ret, coreId, flags, gidx, sv, cstate,
                   flash, dest, loc, hwfault, entry, prev, streamVars>>

(***************************************************************************)
(* stub_flash_read(addr, data, size)                                       *)
(***************************************************************************)
\* Faulty variant: the failure path returns ret, which is still STUB_ERR_OK.
FailReturnsRet == ret' = STUB_ERR_OK /\ pc' = "restore_self"
\* return STUB_ERR_FAIL (through the exit funnel of stub_flash_handler)
Fail == ret' = STUB_ERR_FAIL /\ pc' = "restore_self"

\* if (flash_addr & 0x3UL) { read the word, copy its tail to data }
ReadHead ==
    /\ pc = "rd_head"
    /\ IF addr % 4 # 0
       THEN \E f \in BOOLEAN :
               LET wa == AlignDown(addr, 4)
                   rc == RawResult(f, wa, 4)
                   word == FlashWord(flash, wa)
                   sz == HeadSize(addr)
               IN /\ log' = Append(log, Ev("read", wa, 4, rc))
                  /\ hwfault' = (hwfault \/ f)
                  /\ IF rc # ESP_ROM_SPIFLASH_RESULT_OK
                     THEN Fail /\ UNCHANGED <<dest, loc>>
                     ELSE /\ dest' = [i \in DOMAIN dest |->
                                        IF i < sz THEN word[(addr % 4) + i] ELSE dest[i]]
                          /\ loc' = [flash_addr |-> NextWord(addr), sz |-> size - sz,
                                     n |-> sz, dummy |-> word]
                          /\ pc' = "rd_bulk" /\ ret' = ret
       ELSE /\ loc' = [flash_addr |-> addr, sz |-> size, n |-> 0, dummy |-> NoWord]
            /\ pc' = "rd_bulk"
            /\ UNCHANGED <<ret, dest, log, hwfault>>
    /\ UNCHANGED <<cmd, addr, size, junk, handlerVars, flash, entry, prev, streamVars>>

\* rd_sz &= ~3; esp_rom_spiflash_read(flash_addr, &data[read], rd_sz)
ReadBulk ==
    /\ pc = "rd_bulk"
    /\ \E f \in BOOLEAN :
          LET rd_sz == BulkSize(loc.sz)
              rc == RawResult(f, loc.flash_addr, rd_sz)
          IN /\ log' = Append(log, Ev("read", loc.flash_addr, rd_sz, rc))
             /\ hwfault' = (hwfault \/ f)
             /\ \E cut \in Cuts(rc, rd_sz, 4) :
                   dest' = [i \in DOMAIN dest |->
                              IF ULT(i - loc.n, cut)
                              THEN flash[loc.flash_addr + (i - loc.n)] ELSE dest[i]]
             /\ IF rc # ESP_ROM_SPIFLASH_RESULT_OK
                THEN Fail /\ loc' = loc
                ELSE /\ loc' = [loc EXCEPT !.sz = rd_sz, !.n = loc.n + rd_sz]
                     /\ pc' = "rd_tail" /\ ret' = ret
    /\ UNCHANGED <<cmd, addr, size, junk, handlerVars, flash, entry, prev, streamVars>>

\* if (read < size) { read one more word, copy its first size - read bytes }
ReadTail ==
    /\ pc = "rd_tail"
    /\ IF ULT(loc.n, size)
       THEN \E f \in BOOLEAN :
               LET wa == loc.flash_addr + loc.sz
                   rc == RawResult(f, wa, 4)
                   word == FlashWord(flash, wa)
               IN /\ log' = Append(log, Ev("read", wa, 4, rc))
                  /\ hwfault' = (hwfault \/ f)
                  /\ IF rc # ESP_ROM_SPIFLASH_RESULT_OK
                     THEN Fail /\ UNCHANGED <<dest, loc>>
                     ELSE /\ dest' = [i \in DOMAIN dest |->
                                        IF ULT(i - loc.n, size - loc.n)
                                        THEN word[i - loc.n] ELSE dest[i]]
                          /\ loc' = [loc EXCEPT !.dummy = word]
                          /\ ret' = STUB_ERR_OK /\ pc' = "restore_self"
       ELSE /\ ret' = STUB_ERR_OK /\ pc' = "restore_self"
            /\ UNCHANGED <<dest, loc, log, hwfault>>
    /\ UNCHANGED <<cmd, addr, size, junk, handlerVars, flash, entry, prev, streamVars>>

(***************************************************************************)
(* stub_flash_write(addr, data, size), STUB_ASYNC_WRITE_ALGO == 0          *)
(***************************************************************************)
\* if (flash_addr & 0x3UL) { read the word; memcpy(&dummy_buf[off], data, sz)
WriteHeadRead ==
    /\ pc = "wr_head_rd"
    /\ IF addr % 4 # 0
       THEN \E f \in BOOLEAN :
               LET wa == AlignDown(addr, 4)
                   rc == RawResult(f, wa, 4)
                   word == FlashWord(flash, wa)
                   off == addr % 4
               IN /\ log' = Append(log, Ev("read", wa, 4, rc))
                  /\ hwfault' = (hwfault \/ f)
                  /\ IF rc # ESP_ROM_SPIFLASH_RESULT_OK
                     THEN Fail /\ loc' = loc
                     ELSE /\ loc' = [loc EXCEPT !.dummy =
                                       [i \in 0..3 |-> IF i >= off /\ i - off < HeadSize(addr)
                                                       THEN Data(i - off) ELSE word[i]]]
                          /\ pc' = "wr_head_wr" /\ ret' = ret
       ELSE /\ loc' = [flash_addr |-> addr, sz |-> size, n |-> 0, dummy |-> NoWord]
            /\ pc' = "wr_bulk"
            /\ UNCHANGED <<ret, log, hwfault>>
    /\ UNCHANGED <<cmd, addr, size, junk, handlerVars, flash, dest, entry, prev, streamVars>>

\* esp_rom_spiflash_write(flash_addr & ~3, dummy_buf, 4); wr_sz -= sz; ... }
WriteHeadProgram ==
    /\ pc = "wr_head_wr"
    /\ \E f \in BOOLEAN :
          LET wa == AlignDown(addr, 4)
              rc == RawResult(f, wa, 4)
              sz == HeadSize(addr)
          IN /\ log' = Append(log, Ev("program", wa, 4, rc))
             /\ hwfault' = (hwfault \/ f)
             /\ \E cut \in Cuts(rc, 4, 4) :
                   flash' = FlashProgram(flash, wa, loc.dummy, cut)
             /\ IF rc # ESP_ROM_SPIFLASH_RESULT_OK
                THEN Fail /\ loc' = loc
                ELSE /\ loc' = [loc EXCEPT !.flash_addr = NextWord(addr),
                                           !.sz = size - sz, !.n = sz]
                     /\ pc' = "wr_bulk" /\ ret' = ret
    /\ UNCHANGED <<cmd, addr, size, junk, handlerVars, dest, entry, prev, streamVars>>

\* wr_sz &= ~3; esp_rom_spiflash_write(flash_addr, &data[written], wr_sz)
WriteBulk ==
    /\ pc = "wr_bulk"
    /\ \E f \in BOOLEAN :
          LET wr_sz == BulkSize(loc.sz)
              rc == RawResult(f, loc.flash_addr, wr_sz)
          IN /\ log' = Append(log, Ev("program", loc.flash_addr, wr_sz, rc))
             /\ hwfault' = (hwfault \/ f)
             /\ \E cut \in Cuts(rc, wr_sz, 4) :
                   flash' = FlashProgram(flash, loc.flash_addr,
                                         [o \in 0..(cut - 1) |-> Data(loc.n + o)], cut)
             /\ IF rc # ESP_ROM_SPIFLASH_RESULT_OK
                THEN Fail /\ loc' = loc
                ELSE /\ loc' = [loc EXCEPT !.sz = wr_sz, !.n = loc.n + wr_sz]
                     /\ pc' = "wr_tail_rd" /\ ret' = ret
    /\ UNCHANGED <<cmd, addr, size, junk, handlerVars, dest, entry, prev, streamVars>>

\* if (written < size) { read the word; memcpy(dummy_buf, &data[written], size - written)
WriteTailRead ==
    /\ pc = "wr_tail_rd"
    /\ IF ULT(loc.n, size)
       THEN \E f \in BOOLEAN :
               LET wa == loc.flash_addr + loc.sz
                   rc == RawResult(f, wa, 4)
                   word == FlashWord(flash, wa)
               IN /\ log' = Append(log, Ev("read", wa, 4, rc))
                  /\ hwfault' = (hwfault \/ f)
                  /\ IF rc # ESP_ROM_SPIFLASH_RESULT_OK
                     THEN Fail /\ loc' = loc
                     ELSE /\ loc' = [loc EXCEPT !.dummy =
                                       [i \in 0..3 |-> IF i < size - loc.n
                                                       THEN Data(loc.n + i) ELSE word[i]]]
                          /\ pc' = "wr_tail_wr" /\ ret' = ret
       ELSE /\ ret' = STUB_ERR_OK /\ pc' = "restore_self"
            /\ UNCHANGED <<loc, log, hwfault>>
    /\ UNCHANGED <<cmd, addr, size, junk, handlerVars, flash, dest, entry, prev, streamVars>>

\* esp_rom_spiflash_write(flash_addr + wr_sz, dummy_buf, 4) }
WriteTailProgram ==
    /\ pc = "wr_tail_wr"
    /\ \E f \in BOOLEAN :
          LET wa == loc.flash_addr + loc.sz
              rc == RawResult(f, wa, 4)
          IN /\ log' = Append(log, Ev("program", wa, 4, rc))
             /\ hwfault' = (hwfault \/ f)
             /\ \E cut \in Cuts(rc, 4, 4) :
                   flash' = FlashProgram(flash, wa, loc.dummy, cut)
             /\ IF rc # ESP_ROM_SPIFLASH_RESULT_OK
                THEN Fail
                ELSE ret' = STUB_ERR_OK /\ pc' = "restore_self"
    /\ UNCHANGED <<cmd, addr, size, junk, handlerVars, dest, loc, entry, prev, streamVars>>

(***************************************************************************)
(* stub_flash_erase(flash_addr, size)                                      *)
(***************************************************************************)
Erase ==
    /\ pc = "erase"
    /\ \E f \in BOOLEAN :
          LET ea == EraseAddr(addr)
              es == EraseSize(size)
              rc == RawResult(f, ea, es)
          IN /\ log' = Append(log, Ev("erase", ea, es, rc))
             /\ hwfault' = (hwfault \/ f)
             /\ \E cut \in Cuts(rc, es, SPI_FLASH_SEC_SIZE) :
                   flash' = FlashErase(flash, ea, cut)
             /\ IF rc # ESP_ROM_SPIFLASH_RESULT_OK
                THEN Fail
                ELSE ret' = STUB_ERR_OK /\ pc' = "restore_self"
    /\ UNCHANGED <<cmd, addr, size, junk, handlerVars, dest, loc, entry, prev, streamVars>>

(***************************************************************************)
(* stub_flash_test()                                                       *)
(***************************************************************************)
\* buf[32] = {9, 1, 2, 3, 4, 5, 6, 8}: the rest is zero.
TestData(o) == IF o < Len(TestBuf) THEN TestBuf[o + 1] ELSE 0

\* esp_rom_spiflash_erase_sector(flash_addr / SPI_FLASH_SEC_SIZE)
TestErase ==
    /\ pc = "t_erase"
    /\ \E f \in BOOLEAN :
          LET ea == (TestFlashAddr \div SPI_FLASH_SEC_SIZE) * SPI_FLASH_SEC_SIZE
              rc == RawResult(f, ea, SPI_FLASH_SEC_SIZE)
          IN /\ log' = Append(log, Ev("erase", ea, SPI_FLASH_SEC_SIZE, rc))
             /\ hwfault' = (hwfault \/ f)
             /\ \E cut \in Cuts(rc, SPI_FLASH_SEC_SIZE, SPI_FLASH_SEC_SIZE) :
                   flash' = FlashErase(flash, ea, cut)
             /\ IF rc # ESP_ROM_SPIFLASH_RESULT_OK
                THEN Fail
                ELSE ret' = ret /\ pc' = "t_write"
    /\ UNCHANGED <<cmd, addr, size, junk, handlerVars, dest, loc, entry, prev, streamVars>>

\* esp_rom_spiflash_write(flash_addr, buf, sizeof(buf))
TestWrite ==
    /\ pc = "t_write"
    /\ \E f \in BOOLEAN :
          LET rc == RawResult(f, TestFlashAddr, TestBufSize)
          IN /\ log' = Append(log, Ev("program", TestFlashAddr, TestBufSize, rc))
             /\ hwfault' = (hwfault \/ f)
             /\ \E cut \in Cuts(rc, TestBufSize, 4) :
                   flash' = FlashProgram(flash, TestFlashAddr, [o \in 0..(cut - 1) |-> TestData(o)], cut)
             /\ IF rc # ESP_ROM_SPIFLASH_RESULT_OK
                THEN Fail
                ELSE ret' = ret /\ pc' = "t_read"
    /\ UNCHANGED <<cmd, addr, size, junk, handlerVars, dest, loc, entry, prev, streamVars>>

\* esp_rom_spiflash_read(flash_addr, buf, sizeof(buf)): buf is local
TestRead ==
    /\ pc = "t_read"
    /\ \E f \in BOOLEAN :
          LET rc == RawResult(f, TestFlashAddr, TestBufSize)
          IN /\ log' = Append(log, Ev("read", TestFlashAddr, TestBufSize, rc))
             /\ hwfault' = (hwfault \/ f)
             /\ IF rc # ESP_ROM_SPIFLASH_RESULT_OK
                THEN Fail
                ELSE ret' = STUB_ERR_OK /\ pc' = "restore_self"
    /\ UNCHANGED <<cmd, addr, size, junk, handlerVars, flash, dest, loc, entry, prev,
                   streamVars>>

(***************************************************************************)
(* The synchronous build                                                   *)
(***************************************************************************)
\* Register contents the stub may find.  CTRL1: no region bit set, some set
\* (with a bit outside cache_mask), all set.  CTRL: cache enabled or not.
Ctrl1Init == {{}, {"DROM0", "IRAM0", "MMU_IA_CLR"}, cache_mask}
CtrlInit == {CACHE_ENABLE \cup CtrlOtherBits, {}}

StreamIdle ==
    /\ ring = <<>> /\ wrCur = 0 /\ rdCur = 0 /\ spc = "off" /\ sloc = <<>>
    /\ produced = 0 /\ wraps = 0 /\ programmed = <<>>

Init ==
    /\ pc = "idle"
    /\ cmd = 0 /\ addr = 0 /\ size = 0 /\ junk = NoJunk /\ ret = 0
    /\ coreId \in Cores
    /\ ctrl \in [Cores -> CtrlInit]
    /\ ctrl1 \in [Cores -> Ctrl1Init]
    /\ flags = [i \in 0..1 |-> {}]
    /\ gidx = 1 /\ sv = {} /\ cstate = NoPoll
    /\ flash = [a \in Probe |-> Orig(a)]
    /\ dest = [i \in 0..(DestCap - 1) |-> NoByte]
    /\ loc = LocInit
    /\ log = <<>>
    /\ hwfault = FALSE
    /\ entry = [flash |-> flash, ctrl |-> ctrl, ctrl1 |-> ctrl1]
    /\ prev = NoPrev
    /\ StreamIdle

Next ==
    \/ stub_main
    \/ HostReturn
    \/ DisableSave
    \/ DisablePoll
    \/ DisableClear
    \/ Unlock
    \/ Switch
    \/ ReadHead
    \/ ReadBulk
    \/ ReadTail
    \/ WriteHeadRead
    \/ WriteHeadProgram
    \/ WriteBulk
    \/ WriteTailRead
    \/ WriteTailProgram
    \/ Erase
    \/ TestErase
    \/ TestWrite
    \/ TestRead
    \/ RestoreSelf
    \/ RestoreOther

Spec == Init /\ [][Next]_vars

(***************************************************************************)
(* The streaming build: stub_flash_write(addr, size, buf_start, buf_end)   *)
(* with STUB_ASYNC_WRITE_ALGO != 0.  The host owns *wr_p and the data it   *)
(* puts in front of it, the stub owns *rd_p.  sloc holds the arguments and *)
(* the locals; its buf_start is the value after "buf_start += 8".          *)
(***************************************************************************)
\* Largest number of bytes the host appends in one go.
MaxBurst == 32
\* RAM address of the buffer, requested sizes, and sizes of the data area:
\* a whole number of chunks, and one whose end falls in the middle of a chunk.
BufBase == 2 * STUB_FLASH_WRITE_CHUNK_SZ
StreamSizes == {STUB_FLASH_WRITE_CHUNK_SZ, STUB_FLASH_WRITE_CHUNK_SZ + 8,
                2 * STUB_FLASH_WRITE_CHUNK_SZ, 3 * STUB_FLASH_WRITE_CHUNK_SZ}
DataSizes == {2 * STUB_FLASH_WRITE_CHUNK_SZ,
              (2 * STUB_FLASH_WRITE_CHUNK_SZ) + (STUB_FLASH_WRITE_CHUNK_SZ \div 2)}
\* The k-th byte the host appends (k from 0) is identified by k.
StreamByte(k) == k

\* The loop's decision on the cursors it has just read: leave the loop,
\* poll again, or program wr_sz bytes.
StreamDecide(wr, rd, written, sz, buf_end) ==
    IF wr = 0 \/ ~ULT(written, sz) THEN [go |-> "done", wr_sz |-> 0]
    ELSE IF wr = rd THEN [go |-> "poll", wr_sz |-> 0]
    ELSE IF ULT(rd, wr)
         THEN IF ULT(wr - rd, STUB_FLASH_WRITE_CHUNK_SZ)
              THEN [go |-> "poll", wr_sz |-> 0]
              ELSE [go |-> "program", wr_sz |-> STUB_FLASH_WRITE_CHUNK_SZ]
         ELSE [go |-> "program", wr_sz |-> buf_end - rd]
\* The value stored in *rd_p after a chunk.
\* Faulty variant: the read-cursor is stored without the wrap at buf_end.
NextRdNoWrap(rd, buf_start, buf_end) == rd
NextRd(rd, buf_start, buf_end) == IF rd = buf_end THEN buf_start ELSE rd

\* for (wr = *wr_p, rd = *rd_p; wr != 0 && written < size; ...) { if ... continue; ...
StreamPoll ==
    /\ spc = "poll"
    /\ LET d == StreamDecide(wrCur, rdCur, sloc.written, sloc.size, sloc.buf_end)
       IN /\ sloc' = [sloc EXCEPT !.wr = wrCur, !.rd = rdCur, !.wr_sz = d.wr_sz]
          /\ spc' = d.go
    /\ UNCHANGED <<ring, wrCur, rdCur, produced, wraps, programmed, syncVars>>

\* rc = esp_rom_spiflash_write(addr, rd, wr_sz); ... *rd_p = ...; }
StreamProgram ==
    /\ spc = "program"
    /\ \E f \in BOOLEAN :
          LET rc == RawResult(f, sloc.addr, sloc.wr_sz) IN
          \E cut \in Cuts(rc, sloc.wr_sz, 4) :
             /\ programmed' = programmed \o
                   [i \in 1..cut |-> [a |-> sloc.addr + (i - 1), b |-> ring[sloc.rd + (i - 1)]]]
             /\ IF rc # ESP_ROM_SPIFLASH_RESULT_OK
                THEN /\ rdCur' = 0
                     /\ sloc' = [sloc EXCEPT !.ret = STUB_ERR_FAIL]
                     /\ spc' = "done"
                ELSE /\ rdCur' = NextRd(sloc.rd + sloc.wr_sz, sloc.buf_start, sloc.buf_end)
                     /\ sloc' = [sloc EXCEPT !.written = @ + sloc.wr_sz,
                                             !.addr = @ + sloc.wr_sz,
                                             !.rd = @ + sloc.wr_sz]
                     /\ spc' = "poll"
    /\ UNCHANGED <<ring, wrCur, produced, wraps, syncVars>>

\* The host: room it may fill without reaching the read-cursor or passing
\* the end of the buffer.
Room(wr, rd, buf_start, buf_end) ==
    IF wr >= rd THEN (buf_end - wr) - (IF rd = buf_start THEN 1 ELSE 0)
    ELSE (rd - wr) - 1

\* The host appends k bytes in front of the write-cursor and advances it,
\* wrapping to the start of the data area at the end of the buffer.
Produce ==
    /\ spc # "off"
    /\ wrCur # 0 /\ rdCur # 0
    /\ \E k \in 1..MaxBurst :
          /\ k <= sloc.size - produced
          /\ k <= Room(wrCur, rdCur, sloc.buf_start, sloc.buf_end)
          /\ ring' = [a \in DOMAIN ring |->
                        IF a >= wrCur /\ a < wrCur + k
                        THEN StreamByte(produced + (a - wrCur)) ELSE ring[a]]
          /\ wrCur' = IF wrCur + k = sloc.buf_end THEN sloc.buf_start ELSE wrCur + k
          /\ wraps' = IF wrCur + k = sloc.buf_end THEN 1 ELSE wraps
          /\ produced' = produced + k
    /\ UNCHANGED <<rdCur, spc, sloc, programmed, syncVars>>

\* The host gives up: it stores 0 in the write-cursor.
HostAbort ==
    /\ spc \in {"poll", "program"}
    /\ wrCur # 0
    /\ wrCur' = 0
    /\ UNCHANGED <<ring, rdCur, spc, sloc, produced, wraps, programmed, syncVars>>

InitStream ==
    /\ pc = "idle"
    /\ cmd = 0 /\ addr = 0 /\ size = 0 /\ junk = NoJunk /\ ret = 0
    /\ coreId = 0
    /\ ctrl = [c \in Cores |-> CACHE_ENABLE]
    /\ ctrl1 = [c \in Cores |-> {}]
    /\ flags = [i \in 0..1 |-> {}]
    /\ gidx = 1 /\ sv = {} /\ cstate = NoPoll
    /\ flash = [a \in Probe |-> Orig(a)]
    /\ dest = [i \in 0..(DestCap - 1) |-> NoByte]
    /\ loc = LocInit
    /\ log = <<>>
    /\ hwfault = FALSE
    /\ entry = [flash |-> flash, ctrl |-> ctrl, ctrl1 |-> ctrl1]
    /\ prev = NoPrev
    /\ \E sz \in StreamSizes, ds \in DataSizes :
          /\ sloc = [size |-> sz, buf_start |-> BufBase + 8, buf_end |-> BufBase + 8 + ds,
                     addr |-> WinBase, wr |-> 0, rd |-> 0, wr_sz |-> 0, written |-> 0,
                     ret |-> STUB_ERR_OK]
          /\ ring = [a \in (BufBase + 8) .. (BufBase + 8 + ds - 1) |-> NoByte]
    /\ wrCur = BufBase + 8
    /\ rdCur = BufBase + 8
    /\ spc = "poll"
    /\ produced = 0 /\ wraps = 0 /\ programmed = <<>>

NextStream ==
    \/ StreamPoll
    \/ StreamProgram
    \/ Produce
    \/ HostAbort

SpecStream == InitStream /\ [][NextStream]_vars

(***************************************************************************)
(* Properties of the synchronous build                                     *)
(***************************************************************************)
\* x is a byte of the range [addr, addr + size) of the running command.
InRequest(x) == ULT(x - addr, size)
WordOf(a) == AlignDown(a, 4) .. (AlignDown(a, 4) + 3)
SectorOf(a) == a \div SPI_FLASH_SEC_SIZE
AlignUp(x, m) == AlignDown(x + (m - 1), m)
LogIdx == 1..Len(log)
IsFlashEv(i) == log[i].op \in FlashOps
Returned == pc = "done"

\* C1: a successful stub_flash_write leaves every flash byte outside
\* [addr, addr + size) as it was; in particular, after writing one byte at
\* offset 1 or 2 of a word (the hardware not failing) the other three bytes
\* of that word are as before.
C1_WriteLeavesOtherBytes ==
    (Returned /\ cmd = STUB_CMD_FLASH_WRITE) =>
        /\ ret = STUB_ERR_OK =>
              \A x \in DOMAIN flash : ~InRequest(x) => flash[x] = entry.flash[x]
        /\ (size = 1 /\ addr % 4 \in {1, 2} /\ ~hwfault) =>
              \A x \in WordOf(addr) \ {addr} : flash[x] = entry.flash[x]

C3_EraseCoversRequest ==
    (cmd = STUB_CMD_FLASH_ERASE /\ size > 0) =>
        /\ \A i \in LogIdx : log[i].op = "erase" =>
              /\ log[i].a % SPI_FLASH_SEC_SIZE = 0
              /\ log[i].len % SPI_FLASH_SEC_SIZE = 0
              /\ log[i].a = AlignDown(addr, SPI_FLASH_SEC_SIZE)
              /\ log[i].a + log[i].len = AlignUp(addr + size, SPI_FLASH_SEC_SIZE)
        /\ (Returned /\ ret = STUB_ERR_OK) =>
              \A x \in DOMAIN flash : InRequest(x) => flash[x] = ErasedByte

\* C4: stub_flash_erase changes no byte of a sector that does not intersect
\* [addr, addr + size).
C4_EraseLeavesOtherSectors ==
    cmd = STUB_CMD_FLASH_ERASE =>
        \A x \in DOMAIN flash :
            (size = 0 \/ SectorOf(x) < SectorOf(addr) \/ SectorOf(x) > SectorOf(addr + size - 1))
                => flash[x] = entry.flash[x]
\* An erase of a range that starts inside a sector and crosses into the next
\* has returned OK and has erased bytes.
C4_Witness ==
    /\ Returned /\ cmd = STUB_CMD_FLASH_ERASE /\ ret = STUB_ERR_OK
    /\ addr % SPI_FLASH_SEC_SIZE # 0
    /\ SectorOf(addr + size - 1) > SectorOf(addr)
    /\ \E x \in DOMAIN flash : flash[x] = ErasedByte /\ entry.flash[x] # ErasedByte

\* C5: every ROM flash call (unlock, read, program, erase) is made while the
\* cache-enable bit of both cores is clear, after both disable calls have
\* completed and before any restore call.
FlashPcs == {"unlock", "rd_head", "rd_bulk", "rd_tail", "wr_head_rd", "wr_head_wr", "wr_bulk",
             "wr_tail_rd", "wr_tail_wr", "erase", "t_erase", "t_write", "t_read"}
C5_FlashOnlyWithCachesOff ==
    /\ pc \in FlashPcs => \A c \in Cores : ctrl[c] \cap CACHE_ENABLE = {}
    /\ \A i \in LogIdx : IsFlashEv(i) =>
          /\ \A c \in Cores : \E j \in 1..(i - 1) : log[j].op = "disable" /\ log[j].core = c
          /\ \A j \in 1..(i - 1) : log[j].op # "restore"
\* A write has made a ROM program call and the guard has been released.
C5_Witness ==
    /\ Returned /\ cmd = STUB_CMD_FLASH_WRITE
    /\ \E i \in LogIdx : log[i].op = "program"
    /\ \E i \in LogIdx : log[i].op = "restore"

\* C6: an invocation of stub_flash_handler that returns has called restore
\* exactly once for each core, with the state that core's disable saved, and
\* leaves no cache disabled.
C6_RestoreOncePerCore ==
    (Returned /\ cmd \in FlashCmds) =>
        \A c \in Cores :
            /\ Cardinality({i \in LogIdx : log[i].op = "restore" /\ log[i].core = c}) = 1
            /\ \A i, j \in LogIdx :
                  (log[i].op = "restore" /\ log[i].core = c
                   /\ log[j].op = "disable" /\ log[j].core = c) => log[i].st = log[j].st
            /\ CACHE_ENABLE \subseteq ctrl[c]
\* The handler has returned after a ROM call failed.
C6_Witness ==
    /\ Returned /\ cmd \in FlashCmds /\ ret = STUB_ERR_FAIL
    /\ \E i \in LogIdx : IsFlashEv(i) /\ log[i].rc # ESP_ROM_SPIFLASH_RESULT_OK

\* C7: once restore(core, disable(core)) has run for a core, that core's
\* CACHE_CTRL1 register (region bits and the bits outside cache_mask) is what
\* it was before disable.
RestoredCores ==
    IF pc = "restore_other" THEN {coreId}
    ELSE IF Returned /\ cmd \in FlashCmds THEN Cores ELSE {}
C7_RestoreGivesBackRegionMask ==
    \A c \in RestoredCores : ctrl1[c] = entry.ctrl1[c]
\* Both cores are restored, and one of them had only some regions set.
C7_Witness ==
    /\ RestoredCores = Cores
    /\ \E c \in Cores : ctrl1[c] \cap cache_mask \notin {{}, cache_mask}

\* C8: for a command other than the four flash commands stub_main makes no
\* ROM flash call and no cache-guard call, changes neither the cache registers
\* nor the flash, and returns 0 for TEST and -2 for anything else.
C8_OtherCommandsTouchNothing ==
    (pc # "idle" /\ cmd \notin FlashCmds) =>
        /\ Returned
        /\ log = <<>>
        /\ ctrl = entry.ctrl /\ ctrl1 = entry.ctrl1 /\ flash = entry.flash
        /\ ret = IF cmd = STUB_CMD_TEST THEN STUB_ERR_OK ELSE STUB_ERR_NOT_SUPPORTED
\* stub_main has returned for an identifier above the defined ones.
C8_Witness == Returned /\ cmd > STUB_CMD_FLASH_TEST /\ ret = STUB_ERR_NOT_SUPPORTED

\* C9: the first ROM call that reports non-OK is the last ROM flash call of
\* the invocation and makes stub_main return -1; stub_main returns 0 for a
\* flash command only if every ROM call it made reported OK.
C9_FailFast ==
    cmd \in FlashCmds =>
        /\ \A i \in LogIdx :
              (IsFlashEv(i) /\ log[i].rc # ESP_ROM_SPIFLASH_RESULT_OK) =>
                  /\ \A j \in (i + 1)..Len(log) : ~IsFlashEv(j)
                  /\ pc \notin FlashPcs \cup {"switch"}
                  /\ ret = STUB_ERR_FAIL
        /\ Returned =>
              /\ ret \in {STUB_ERR_OK, STUB_ERR_FAIL}
              /\ ret = STUB_ERR_OK =>
                    \A i \in LogIdx : IsFlashEv(i) => log[i].rc = ESP_ROM_SPIFLASH_RESULT_OK
\* A write whose head was programmed has failed at the bulk call and returned.
C9_Witness ==
    /\ Returned /\ cmd = STUB_CMD_FLASH_WRITE /\ ret = STUB_ERR_FAIL
    /\ \E i \in LogIdx : log[i].op = "program" /\ log[i].rc = ESP_ROM_SPIFLASH_RESULT_OK
    /\ \E i \in LogIdx : log[i].op = "program" /\ log[i].rc # ESP_ROM_SPIFLASH_RESULT_OK

\* C11: stub_flash_read with every ROM read succeeding returns 0, sets
\* dest[i] = flash[addr + i] for 0 <= i < size and writes no byte of dest at
\* an index >= size, for every addr and size (size 0 and sizes shorter than
\* the unaligned head included).
C11_ReadFillsExactly ==
    cmd = STUB_CMD_FLASH_READ =>
        /\ \A i \in DOMAIN dest : i >= size => dest[i] = NoByte
        /\ (Returned /\ ~hwfault) =>
              /\ ret = STUB_ERR_OK
              /\ \A i \in 0..(size - 1) : dest[i] = entry.flash[addr + i]

\* The ROM read, program and erase calls of the invocation, in order.
IsRawCall(e) == e.op \in {"read", "program", "erase"}
RawCalls == SelectSeq(log, IsRawCall)

\* C12: a FLASH_WRITE at a 4-byte aligned addr with a size that is not a
\* multiple of 4, every ROM call succeeding, returns 0 and makes after the
\* unlock exactly three ROM calls: one program of size rounded down to a
\* multiple of 4 at addr, then one 4-byte read and one 4-byte program of the
\* word that holds the trailing size mod 4 bytes; there is no head
\* read-modify-write.
C12_AlignedWriteCalls ==
    (Returned /\ cmd = STUB_CMD_FLASH_WRITE /\ addr % 4 = 0 /\ size % 4 # 0 /\ ~hwfault) =>
        /\ ret = STUB_ERR_OK
        /\ RawCalls =
              << Ev("program", addr, AlignDown(size, 4), ESP_ROM_SPIFLASH_RESULT_OK),
                 Ev("read", addr + AlignDown(size, 4), 4, ESP_ROM_SPIFLASH_RESULT_OK),
                 Ev("program", addr + AlignDown(size, 4), 4, ESP_ROM_SPIFLASH_RESULT_OK) >>
\* The write of 10 bytes at 0x1000 has returned 0 after its three ROM calls.
C12_Witness ==
    /\ Returned /\ cmd = STUB_CMD_FLASH_WRITE /\ addr = WinBase /\ size = 10
    /\ ret = STUB_ERR_OK /\ Len(RawCalls) = 3
    /\ \A x \in DOMAIN flash : InRequest(x) => flash[x] = Payload(x - addr)

\* C13: every ROM read and program call that stub_flash_read and
\* stub_flash_write make has an address and a length that are multiples of 4.
C13_RawCallsWordAligned ==
    cmd \in {STUB_CMD_FLASH_READ, STUB_CMD_FLASH_WRITE} =>
        \A i \in LogIdx : log[i].op \in {"read", "program"} =>
            log[i].a % 4 = 0 /\ log[i].len % 4 = 0
\* An unaligned write with an unaligned end has made its head, bulk and tail
\* calls and returned 0.
C13_Witness ==
    /\ Returned /\ cmd = STUB_CMD_FLASH_WRITE /\ ret = STUB_ERR_OK
    /\ addr % 4 # 0 /\ (addr + size) % 4 # 0
    /\ Len(RawCalls) = 5

\* C14: whatever the cache-control state of the two cores at entry (enable
\* bit 0 or 1, any region bits), after stub_flash_handler returns, on success
\* and on every failure path, each core's CACHE_CTRL and CACHE_CTRL1
\* registers are what they were before the call.
C14_CachesLeftAsFound ==
    (Returned /\ cmd \in FlashCmds) => (ctrl = entry.ctrl /\ ctrl1 = entry.ctrl1)

\* The cache-guard calls of the invocation, in order.
IsGuardCall(e) == e.op \in {"disable", "restore"}
GuardCalls == SelectSeq(log, IsGuardCall)
\* stub_flash_handler: the order of its four guard calls.
GuardOrder ==
    << [op |-> "disable", core |-> OtherCore(coreId)], [op |-> "disable", core |-> coreId],
       [op |-> "restore", core |-> coreId], [op |-> "restore", core |-> OtherCore(coreId)] >>

\* C15: the guard calls of stub_flash_handler are, in this order, disable of
\* the other core, disable of the executing core, restore of the executing
\* core, restore of the other core, whichever core executes; each restore is
\* given the state the disable of the same core saved.
C15_GuardOrder ==
    cmd \in FlashCmds =>
        /\ Len(GuardCalls) <= Len(GuardOrder)
        /\ Returned => Len(GuardCalls) = Len(GuardOrder)
        /\ \A i \in 1..Len(GuardCalls) :
              /\ GuardCalls[i].op = GuardOrder[i].op
              /\ GuardCalls[i].core = GuardOrder[i].core
              /\ GuardCalls[i].st = SavedState(entry.ctrl1[GuardCalls[i].core])
\* The handler has returned on the APP core, the two cores having had
\* different region bits.
C15_Witness ==
    /\ Returned /\ cmd \in FlashCmds /\ coreId = 1
    /\ Len(GuardCalls) = 4
    /\ SavedState(entry.ctrl1[0]) # SavedState(entry.ctrl1[1])

\* C16: the unlock is attempted exactly once per invocation, after both
\* caches are disabled and before any read, program or erase; if it reports
\* non-OK, no read, program or erase is called, the status is -1 and restore
\* is still called for both cores.
C16_UnlockOnceFirst ==
    cmd \in FlashCmds =>
        /\ Cardinality({i \in LogIdx : log[i].op = "unlock"}) <= 1
        /\ Returned => \E i \in LogIdx : log[i].op = "unlock"
        /\ \A i \in LogIdx : log[i].op = "unlock" =>
              /\ \A c \in Cores : \E j \in 1..(i - 1) : log[j].op = "disable" /\ log[j].core = c
              /\ \A j \in 1..(i - 1) : ~IsRawCall(log[j])
              /\ log[i].rc # ESP_ROM_SPIFLASH_RESULT_OK =>
                    /\ RawCalls = <<>>
                    /\ pc \notin FlashPcs \cup {"switch"}
                    /\ ret = STUB_ERR_FAIL
                    /\ Returned => \A c \in Cores :
                          /\ \E j \in (i + 1)..Len(log) :
                                log[j].op = "restore" /\ log[j].core = c
                          /\ CACHE_ENABLE \subseteq ctrl[c]
                          /\ ctrl1[c] = entry.ctrl1[c]
        /\ \A i \in LogIdx : IsRawCall(log[i]) =>
              \E j \in 1..(i - 1) : log[j].op = "unlock"
\* The unlock has failed and the handler has returned.
C16_Witness ==
    /\ Returned /\ cmd \in FlashCmds /\ ret = STUB_ERR_FAIL
    /\ \E i \in LogIdx : log[i].op = "unlock" /\ log[i].rc # ESP_ROM_SPIFLASH_RESULT_OK
    /\ Len(GuardCalls) = 4

\* The steps of stub_spi_flash_disable_cache.
DisablePcs == {"dis_save", "dis_poll", "dis_clear"}

\* C17: disable clears a core's enable bit only after a poll of that core's
\* status field read idle (1); a poll that reads anything else changes no
\* cache register and is followed by another poll, so that the handler gets
\* past the disable calls, to the ROM flash calls, only by reading idle.
C17_DisableWaitsForIdle ==
    [][ /\ pc = "dis_poll" =>
              /\ ctrl' = ctrl /\ ctrl1' = ctrl1 /\ log' = log
              /\ cstate'.core = GuardCore(gidx)
              /\ pc' = IF cstate'.val = 1 THEN "dis_clear" ELSE "dis_poll"
        /\ (pc \in DisablePcs /\ ctrl' # ctrl) =>
              /\ pc = "dis_clear"
              /\ cstate = [core |-> GuardCore(gidx), val |-> 1]
              /\ ctrl' = [ctrl EXCEPT ![cstate.core] = @ \ CACHE_ENABLE]
        /\ (pc \in DisablePcs /\ pc' \notin DisablePcs) =>
              /\ pc = "dis_clear" /\ cstate.val = 1
        /\ (pc' \in FlashPcs \cup {"switch"}) =>
              pc \in FlashPcs \cup {"switch", "dis_clear"}
      ]_vars
\* The other core's cache is disabled and a poll of the executing core's
\* status has read a value that is neither idle nor zero.
C17_Witness ==
    /\ pc = "dis_poll" /\ gidx = 0 /\ Len(log) = 1
    /\ cstate = [core |-> coreId, val |-> 2]

(***************************************************************************)
(* Properties of the streaming build                                       *)
(***************************************************************************)
\* The stub has nothing left to do on the cursors as they are: it has left
\* the loop, or its next poll finds no chunk ready.
StreamQuiet ==
    \/ spc = "done"
    \/ /\ spc = "poll"
       /\ StreamDecide(wrCur, rdCur, sloc.written, sloc.size, sloc.buf_end).go = "poll"

\* The bytes programmed so far are the first bytes the host appended, in
\* order, at consecutive addresses from the target address.
StreamInOrder ==
    \A i \in 1..Len(programmed) :
        programmed[i] = [a |-> WinBase + (i - 1), b |-> StreamByte(i - 1)]

\* C10: with a host that only appends and advances the write-cursor, and no
\* hardware failure, the bytes programmed are the bytes appended, in order and
\* at consecutive addresses; once the host has appended all of them and the
\* stub has nothing left to do, none is missing.
C10_StreamLosesNothing ==
    (wrCur # 0 /\ rdCur # 0) =>
        /\ StreamInOrder
        /\ (produced = sloc.size /\ StreamQuiet) => Len(programmed) = produced

\* The cursor that stands for n bytes passed through the data area.
CursorAt(n) == sloc.buf_start + (n % (sloc.buf_end - sloc.buf_start))

\* C18: the value the stub stores in the read-cursor is inside the data area
\* [buf_start + 8, buf_end), never buf_end or beyond, or it is the failure
\* sentinel 0, which goes with the return of -1; the read-cursor stands for
\* the bytes programmed so far, which are never more than the host has
\* appended; the write-cursor is where the host left it: the stub does not
\* write it.
C18_ReadCursorInBuffer ==
    /\ rdCur = 0 \/ (sloc.buf_start <= rdCur /\ rdCur < sloc.buf_end)
    /\ rdCur = 0 => (spc = "done" /\ sloc.ret = STUB_ERR_FAIL)
    /\ rdCur # 0 => rdCur = CursorAt(sloc.written)
    /\ sloc.written <= produced
    /\ wrCur \in {0, CursorAt(produced)}
\* The stub has programmed up to buf_end and stored the start of the data
\* area in the read-cursor.
C18_Witness ==
    /\ spc = "poll" /\ wraps = 1
    /\ sloc.written = sloc.buf_end - sloc.buf_start
    /\ rdCur = sloc.buf_start
    /\ Len(programmed) = sloc.written

\* C19: the loop returns 0 only when written has reached size or the
\* write-cursor was read as 0; and when the host has appended all size bytes
\* without zeroing the write-cursor and no program call has failed, the loop
\* is not left polling with nothing to program: it ends, with written = size.
C19_StreamTerminates ==
    /\ (spc = "done" /\ sloc.ret = STUB_ERR_OK) =>
          (sloc.wr = 0 \/ ~ULT(sloc.written, sloc.size))
    /\ (wrCur # 0 /\ rdCur # 0 /\ produced = sloc.size /\ StreamQuiet) =>
          (spc = "done" /\ sloc.written = sloc.size)
====
